---- MODULE Spec2Model ----
(***************************************************************************)
(* Model of the Devmode consensus engine (src/src/engine.rs): the engine   *)
(* loop of DevmodeEngine::start, the DevmodeService adapter, the fork      *)
(* choice, the consensus tag and the wait-time policy.  The validator      *)
(* (the sawtooth_sdk Service and the update channel) is the environment.   *)
(***************************************************************************)
EXTENDS Integers, Sequences, FiniteSets, TLC

\* ------------------------------------------------------------------ bounds
MaxHeight == 2      \* highest block_num in the validator's block store
MaxQueue  == 1      \* updates buffered in the channel
MaxRetry  == 2      \* BlockNotReady answers per publish attempt
MaxSummary == 2     \* bytes of a block summary handed to check_consensus

\* --------------------------------------------------------------- constants
DEFAULT_WAIT_TIME == 0
NULL_BLOCK_IDENTIFIER == <<0, 0, 0, 0, 0, 0, 0, 0>>
\* b"Devmode"
DevmodeTag == <<68, 101, 118, 109, 111, 100, 101>>
MIN_KEY == "sawtooth.consensus.min_wait_time"
MAX_KEY == "sawtooth.consensus.max_wait_time"

\* ------------------------------------------------------------ consensus tag
create_consensus(summary) == DevmodeTag \o summary

\* Mutant of check_consensus: only the "Devmode" prefix is compared.
check_consensus_prefix(block) ==
    /\ Len(block.payload) >= Len(DevmodeTag)
    /\ SubSeq(block.payload, 1, Len(DevmodeTag)) = DevmodeTag

check_consensus(block) == block.payload = create_consensus(block.summary)

\* ------------------------------------------------- BlockId (Vec<u8>) order
RECURSIVE LexLess(_, _)
LexLess(a, b) ==
    IF a = <<>> THEN b # <<>>
    ELSE IF b = <<>> THEN FALSE
    ELSE IF Head(a) < Head(b) THEN TRUE
    ELSE IF Head(a) > Head(b) THEN FALSE
    ELSE LexLess(Tail(a), Tail(b))

\* Mutant of IdGreater: >= in place of >.
IdGreaterOrEqual(a, b) == a = b \/ LexLess(b, a)

IdGreater(a, b) == LexLess(b, a)

\* --------------------------------------------- the validator's block store
Forks == {"a", "b"}
Peers == {"p1", "p2"}

BlockIdOf(f, h) ==
    IF h = 0 THEN <<1, 0>>
    ELSE IF f = "a" THEN (IF h % 2 = 1 THEN <<2, h>> ELSE <<1, h>>)
    ELSE <<1, h, 0>>

MkBlock(f, h) ==
    [block_id    |-> BlockIdOf(f, h),
     previous_id |-> IF h = 0 THEN NULL_BLOCK_IDENTIFIER
                     ELSE IF h = 1 THEN BlockIdOf("a", 0)
                     ELSE BlockIdOf(f, h - 1),
     block_num   |-> h,
     signer_id   |-> IF f = "a" THEN "p1" ELSE "p2",
     summary     |-> <<h>>,
     payload     |-> create_consensus(<<h>>)]

Genesis == MkBlock("a", 0)

StoreBlocks == {Genesis} \cup {MkBlock(f, h) : f \in Forks, h \in 1..MaxHeight}

KnownIds == {b.block_id : b \in StoreBlocks}

BlockOf(id) == CHOOSE b \in StoreBlocks : b.block_id = id

NoBlock ==
    [block_id |-> <<>>, previous_id |-> <<>>, block_num |-> 0,
     signer_id |-> "", summary |-> <<>>, payload |-> <<>>]

\* ------------------------------------------------------------ service calls
NoBuild == "none"

Call(op, arg, peer, msg, ret, res, build) ==
    [op |-> op, arg |-> arg, peer |-> peer, msg |-> msg,
     ret |-> ret, res |-> res, build |-> build]

Failed(c) == [c EXCEPT !.res = "err"]

\* ------------------------------------------------------- wait-time policy
Digits == {"0", "1", "2", "3", "4", "5", "6", "7", "8", "9"}

DigitVal(c) ==
    CASE c = "0" -> 0 [] c = "1" -> 1 [] c = "2" -> 2 [] c = "3" -> 3
      [] c = "4" -> 4 [] c = "5" -> 5 [] c = "6" -> 6 [] c = "7" -> 7
      [] c = "8" -> 8 [] c = "9" -> 9

RECURSIVE DigitsValue(_, _)
DigitsValue(s, acc) ==
    IF s = <<>> THEN acc ELSE DigitsValue(Tail(s), acc * 10 + DigitVal(Head(s)))

\* str::parse::<u64>() on a string given as its sequence of characters:
\* an optional leading "+", then at least one character, all of them digits
\* (the settings of the model are short, so u64 overflow does not arise).
ParseU64(s) ==
    LET body == IF s # <<>> /\ Head(s) = "+" THEN Tail(s) ELSE s
    IN  IF body = <<>> \/ \E i \in 1..Len(body) : body[i] \notin Digits
        THEN [ok |-> FALSE, val |-> 0]
        ELSE [ok |-> TRUE, val |-> DigitsValue(body, 0)]

UnwrapOr0(r) == IF r.ok THEN r.val ELSE 0

\* The settings the validator holds at block `id`, as key -> string.
SettingsAt(id) ==
    LET h == BlockOf(id).block_num
    IN  IF h = 0 THEN (MIN_KEY :> <<"0">> @@ MAX_KEY :> <<"2">>)
        ELSE IF h = 1 THEN (MIN_KEY :> <<"1">> @@ MAX_KEY :> <<"1">>)
        ELSE IF h = 2 THEN (MIN_KEY :> <<"1">> @@ MAX_KEY :> <<"2">>)
        ELSE (MIN_KEY :> <<"x">> @@ MAX_KEY :> <<"2">>)

\* What get_settings can answer for block `id`: the settings, the settings
\* without the max key, or an error.
SettingsAnswers == {"full", "nomax", "err"}

SettingsMap(id, answer) ==
    IF answer = "nomax" THEN (MIN_KEY :> SettingsAt(id)[MIN_KEY])
    ELSE SettingsAt(id)

\* Mutant of GenRange: the upper end is included.
GenRangeInclusive(low, high) == low..high

\* Line 203: rand's gen_range(low, high), any value of the half-open range.
GenRange(low, high) == low..(high - 1)

\* Lines 185-207 on the result of get_settings ([ok, map]): the wait times
\* (seconds) that can come out, or a panic when the map is indexed by a key
\* it does not hold.
WaitTimeOf(settings_result) ==
    IF ~settings_result.ok THEN [panic |-> FALSE, waits |-> {DEFAULT_WAIT_TIME}]
    ELSE LET settings == settings_result.map
         IN  IF MIN_KEY \notin DOMAIN settings \/ MAX_KEY \notin DOMAIN settings
             THEN [panic |-> TRUE, waits |-> {}]
             ELSE LET min_wait_time == UnwrapOr0(ParseU64(settings[MIN_KEY]))
                      max_wait_time == UnwrapOr0(ParseU64(settings[MAX_KEY]))
                  IN  IF min_wait_time >= max_wait_time
                      THEN [panic |-> FALSE, waits |-> {DEFAULT_WAIT_TIME}]
                      ELSE [panic |-> FALSE,
                            waits |-> GenRange(min_wait_time, max_wait_time)]

\* The result of get_settings for block `id` under the validator's answer.
SettingsResult(id, answer) ==
    [ok |-> answer # "err", map |-> SettingsMap(id, answer)]

\* calculate_wait_time after the get_settings call.
calculate_wait_time(id, answer) == WaitTimeOf(SettingsResult(id, answer))

SettingsCall(id, answer) ==
    Call("get_settings", id, "", answer, <<>>,
         IF answer = "err" THEN "err" ELSE "ok", NoBuild)

\* -------------------------------------------------------------- fork choice
\* The backward walk of lines 293-299: follow previous_id from chain_head,
\* one get_block per step, until a block of height num is found.  A lookup
\* of an unknown id fails (get_block panics).
\* Mutant of AncestorWalk: the loop is left one block early, at the first
\* block that is not more than one above num.
RECURSIVE AncestorWalkEarly(_, _, _)
AncestorWalkEarly(chain_block, num, lookups) ==
    LET id == chain_block.previous_id
    IN  IF id \notin KnownIds
        THEN [found |-> FALSE, block |-> NoBlock, lookups |-> Append(lookups, id)]
        ELSE IF BlockOf(id).block_num <= num + 1
        THEN [found |-> TRUE, block |-> BlockOf(id), lookups |-> Append(lookups, id)]
        ELSE AncestorWalkEarly(BlockOf(id), num, Append(lookups, id))

RECURSIVE AncestorWalk(_, _, _)
AncestorWalk(chain_block, num, lookups) ==
    LET id == chain_block.previous_id
    IN  IF id \notin KnownIds
        THEN [found |-> FALSE, block |-> NoBlock, lookups |-> Append(lookups, id)]
        ELSE IF BlockOf(id).block_num = num
        THEN [found |-> TRUE, block |-> BlockOf(id), lookups |-> Append(lookups, id)]
        ELSE AncestorWalk(BlockOf(id), num, Append(lookups, id))

\* Mutant of ForkChoice: line 300 compares with chain_head's id instead of
\* chain_block's.
ForkChoiceAgainstHead(block, head) ==
    IF block.block_num > head.block_num
       \/ (block.block_num = head.block_num
           /\ IdGreater(block.block_id, head.block_id))
    THEN [lookups |-> <<>>, found |-> TRUE, verdict |-> "commit_block"]
    ELSE IF block.block_num < head.block_num
    THEN LET w == AncestorWalk(head, block.block_num, <<>>)
         IN  [lookups |-> w.lookups, found |-> w.found,
              verdict |-> IF w.found /\ IdGreater(block.block_id, head.block_id)
                          THEN "commit_block" ELSE "ignore_block"]
    ELSE [lookups |-> <<>>, found |-> TRUE, verdict |-> "ignore_block"]

\* The decision of lines 286-310 for a valid block against chain_head:
\* the get_block lookups made, whether they all succeeded, and the verdict.
ForkChoice(block, head) ==
    IF block.block_num > head.block_num
       \/ (block.block_num = head.block_num
           /\ IdGreater(block.block_id, head.block_id))
    THEN [lookups |-> <<>>, found |-> TRUE, verdict |-> "commit_block"]
    ELSE IF block.block_num < head.block_num
    THEN LET w == AncestorWalk(head, block.block_num, <<>>)
         IN  [lookups |-> w.lookups, found |-> w.found,
              verdict |-> IF w.found /\ IdGreater(block.block_id, w.block.block_id)
                          THEN "commit_block" ELSE "ignore_block"]
    ELSE [lookups |-> <<>>, found |-> TRUE, verdict |-> "ignore_block"]

\* ------------------------------------------------------------------ updates
Ev(type, block, id, msg, peer) ==
    [type |-> type, block |-> block, id |-> id, msg |-> msg, peer |-> peer]

NoEvent  == Ev("None", NoBlock, <<>>, "", "")
StartEv  == Ev("Start", NoBlock, <<>>, "", "")
Timeout  == Ev("Timeout", NoBlock, <<>>, "", "")
Disconnected == Ev("Disconnected", NoBlock, <<>>, "", "")

\* Blocks announced by BlockNew: the genesis block (predecessor null) with a
\* good and with a bad tag, and a height-1 block with a good tag, with bad
\* tags, and with a predecessor of seven zero bytes.
NewBlocks ==
    LET b == MkBlock("a", 1)
    IN  {Genesis,
         [Genesis EXCEPT !.payload = DevmodeTag],
         b,
         [b EXCEPT !.payload = DevmodeTag],
         [b EXCEPT !.payload = create_consensus(b.summary) \o <<0>>],
         [b EXCEPT !.previous_id = <<0, 0, 0, 0, 0, 0, 0>>]}

CommitIds == {BlockIdOf("a", h) : h \in 0..MaxHeight}

PeerMessages ==
    {Ev("PeerMessage", NoBlock, BlockIdOf("a", 1), "published", "p1"),
     Ev("PeerMessage", NoBlock, BlockIdOf("a", 1), "received", "p1"),
     Ev("PeerMessage", NoBlock, BlockIdOf("b", 1), "received", "p2"),
     Ev("PeerMessage", NoBlock, BlockIdOf("a", 1), "ack", "p1"),
     Ev("PeerMessage", NoBlock, BlockIdOf("a", 1), "gossip", "p1")}

Updates ==
    {Ev("Shutdown", NoBlock, <<>>, "", "")}
    \cup {Ev("BlockNew", b, <<>>, "", "") : b \in NewBlocks}
    \cup {Ev("BlockValid", NoBlock, id, "", "") : id \in KnownIds}
    \cup {Ev("BlockInvalid", NoBlock, BlockIdOf("b", 1), "", "")}
    \cup {Ev("BlockCommit", NoBlock, id, "", "") : id \in CommitIds}
    \cup PeerMessages
    \cup {Ev("PeerConnected", NoBlock, <<>>, "", "p2"),
          Ev("PeerDisconnected", NoBlock, <<>>, "", "p2")}

\* The updates the validator sends while the engine sleeps in a retry loop
\* of finalize_block.
RetryUpdates ==
    {Ev("Shutdown", NoBlock, <<>>, "", ""),
     Ev("BlockCommit", NoBlock, BlockIdOf("a", 1), "", "")}

\* What the validator can answer to summarize_block and finalize_block.
Summaries == {<<7>>, <<7, 7>>}
NewIds    == {<<9>>, <<9, 1>>}

\* -------------------------------------------------------------------- state
VARIABLES
    pc,                   \* position of DevmodeEngine::start
    chain_head,           \* let mut chain_head
    wait_time,            \* let mut wait_time (seconds)
    published_at_height,  \* let mut published_at_height
    elapsed,              \* Instant::now().duration_since(start), saturated
    log_guard,            \* DevmodeService.log_guard
    consensus,            \* finalize_block: the tag computed at line 90
    queue,                \* the updates channel
    svc_pending,          \* the validator has a block build in progress
    svc_stale,            \* that build was in progress when the last
                          \* BlockCommit was taken from the channel
    cur,                  \* the update whose handler runs in this iteration
    calls,                \* service calls made by that handler, or by the
                          \* publish step of lines 376-380
    wait_head,            \* the block id wait_time was computed for
    finalized             \* finalize_block successes since the last BlockCommit

vars == <<pc, chain_head, wait_time, published_at_height, elapsed, log_guard,
          consensus, queue, svc_pending, svc_stale, cur, calls, wait_head,
          finalized>>

locals == <<chain_head, wait_time, published_at_height, elapsed, log_guard,
            consensus, wait_head, finalized>>

service == <<svc_pending, svc_stale>>

LogGuardDefault ==
    [not_ready_to_summarize |-> FALSE, not_ready_to_finalize |-> FALSE]

CurBuild ==
    IF ~svc_pending THEN NoBuild ELSE IF svc_stale THEN "stale" ELSE "fresh"

\* The calls made when call number f of the intended calls cs fails
\* (f = 0: none fails).
Performed(cs, f) ==
    IF f = 0 THEN cs ELSE Append(SubSeq(cs, 1, f - 1), Failed(cs[f]))

Init ==
    /\ pc = "start"
    /\ chain_head \in StoreBlocks
    /\ wait_time = 0
    /\ published_at_height = FALSE
    /\ elapsed = 0
    /\ log_guard = LogGuardDefault
    /\ consensus = <<>>
    /\ queue = <<>>
    /\ svc_pending = FALSE
    /\ svc_stale = FALSE
    /\ cur = NoEvent
    /\ calls = <<>>
    /\ wait_head = <<>>
    /\ finalized = 0

\* Mutant of Panic: the error is logged and the loop goes on.
PanicSwallowed ==
    /\ pc' = "loop"
    /\ queue' = <<>>
    /\ UNCHANGED locals

\* start is left by a panic: its locals and the receiving half of the
\* channel are dropped.
Panic ==
    /\ pc' = "panic"
    /\ chain_head' = Genesis
    /\ wait_time' = 0
    /\ published_at_height' = FALSE
    /\ elapsed' = 0
    /\ log_guard' = LogGuardDefault
    /\ consensus' = <<>>
    /\ wait_head' = <<>>
    /\ finalized' = 0
    /\ queue' = <<>>

Running == pc \notin {"start", "done", "panic"}

\* ------------------------------------------------------------ environment
\* The validator sends an update.  The engine looks at the channel only in
\* recv_timeout, so an update sent while a handler runs is one sent just
\* after; the retry loops of finalize_block sleep, and updates pile up.
Deliver ==
    /\ \/ pc = "recv"
       \/ /\ pc \in {"summarize", "finalize"}
          /\ calls # <<>>
          /\ calls[Len(calls)].res = "notready"
    /\ Len(queue) < MaxQueue
    /\ \E u \in (IF pc = "recv" THEN Updates ELSE RetryUpdates) :
         queue' = Append(queue, u)
    /\ UNCHANGED <<pc, service, cur, calls, locals>>

\* The longest wait the settings of the store can give, and the value the
\* clock saturates at: line 375 cannot tell longer times apart.
MaxWait ==
    LET ws == UNION {calculate_wait_time(id, a).waits :
                        id \in KnownIds, a \in SettingsAnswers}
    IN  CHOOSE w \in ws : \A v \in ws : v <= w

MaxTime == MaxWait + 1

\* Time passes.  The clock is read only at line 375 and restarted only at
\* lines 236 and 325, so time passing during a handler is time passing
\* before the publish check.
Tick ==
    /\ pc \in {"recv", "publish"}
    /\ elapsed < MaxTime
    /\ elapsed' = elapsed + 1
    /\ UNCHANGED <<pc, chain_head, wait_time, published_at_height, log_guard,
                   consensus, queue, service, cur, calls, wait_head, finalized>>

\* ------------------------------------------------------------------ startup
\* Lines 68-73: the initialize_block call; the validator refuses it when a
\* build is already in progress.
InitializeCall(build) ==
    Call("initialize_block", <<>>, "", "", <<>>,
         IF build # NoBuild THEN "err" ELSE "ok", build)

\* Lines 231-238.
Startup ==
    /\ pc = "start"
    /\ cur' = StartEv
    /\ \E answer \in SettingsAnswers, fail \in BOOLEAN :
         LET id == chain_head.block_id
             cw == calculate_wait_time(id, answer)
             sc == SettingsCall(id, answer)
             ic == InitializeCall(CurBuild)
         IN  IF cw.panic
             THEN /\ calls' = <<sc>>
                  /\ Panic
                  /\ UNCHANGED service
             ELSE IF fail \/ ic.res # "ok"
             THEN /\ calls' = <<sc, Failed(ic)>>
                  /\ Panic
                  /\ UNCHANGED service
             ELSE /\ calls' = <<sc, ic>>
                  /\ wait_time' \in cw.waits
                  /\ wait_head' = id
                  /\ published_at_height' = FALSE
                  /\ elapsed' = 0
                  /\ svc_pending' = TRUE
                  /\ pc' = "loop"
                  /\ UNCHANGED <<chain_head, log_guard, consensus, queue,
                                 svc_stale, finalized>>

\* --------------------------------------------------------------- the loop
\* Mutant of Take: the retry loops of finalize_block look at the channel too.
TakeDuringRetry(type) ==
    /\ pc \in {"recv", "summarize", "finalize"}
    /\ queue # <<>>
    /\ Head(queue).type = type
    /\ cur' = Head(queue)

\* recv_timeout returns Ok(update): the update leaves the channel.
Take(type) ==
    /\ pc = "recv"
    /\ queue # <<>>
    /\ Head(queue).type = type
    /\ cur' = Head(queue)

\* The handler is done without a panic: on to line 375.
ToPublish ==
    /\ pc' = "publish"
    /\ queue' = Tail(queue)

\* Mutant of ShutdownTarget: no break, Shutdown falls through to line 375.
ShutdownFallsThrough == "publish"

\* Lines 252-254 and 384.
ShutdownTarget == "done"

HandleShutdown ==
    /\ Take("Shutdown")
    /\ calls' = <<>>
    /\ pc' = ShutdownTarget
    /\ queue' = Tail(queue)
    /\ UNCHANGED <<service, locals>>

\* Mutant of IsGenesis: any all-zero predecessor id counts as null.
IsGenesisAnyLength(block) ==
    \A i \in 1..Len(block.previous_id) : block.previous_id[i] = 0

\* Line 258.
IsGenesis(block) == block.previous_id = NULL_BLOCK_IDENTIFIER

\* Lines 263-269: the call BlockNew makes for a block that is not genesis.
BlockNewCall(block) ==
    IF check_consensus(block)
    THEN Call("check_blocks", block.block_id, "", "", <<>>, "ok", CurBuild)
    ELSE Call("fail_block", block.block_id, "", "", <<>>, "ok", CurBuild)

\* Lines 255-270.
HandleBlockNew ==
    /\ Take("BlockNew")
    /\ LET block == Head(queue).block
       IN  IF IsGenesis(block)
           THEN /\ calls' = <<>>
                /\ pc' = "continue"
                /\ queue' = Tail(queue)
                /\ UNCHANGED locals
           ELSE \E f \in 0..1 :
                  /\ calls' = Performed(<<BlockNewCall(block)>>, f)
                  /\ IF f = 0 THEN ToPublish /\ UNCHANGED locals
                     ELSE Panic
    /\ UNCHANGED service

\* Line 260: continue.
Continue ==
    /\ pc = "continue"
    /\ pc' = "recv"
    /\ cur' = NoEvent
    /\ calls' = <<>>
    /\ UNCHANGED <<queue, service, locals>>

\* Lines 156-162.
send_block_received(block) ==
    Call("send_to", block.block_id, block.signer_id, "received", <<>>, "ok", CurBuild)

\* Lines 59-66: the get_blocks call; the validator answers an error for an
\* id it does not know.
GetBlockCall(id) ==
    Call("get_blocks", id, "", "", id,
         IF id \in KnownIds THEN "ok" ELSE "err", CurBuild)

\* Mutant of DecisionHead: line 277 missing, the head of an earlier update.
DecisionHeadStale(old_head, new_head) == old_head

\* The head the fork choice of BlockValid is evaluated against: the one
\* line 277 has just stored in chain_head.
DecisionHead(old_head, new_head) == new_head

\* Lines 273-310: the calls BlockValid(block_id) makes when get_chain_head
\* answers new_head.
BlockValidCalls(block_id, old_head, new_head) ==
    LET block == BlockOf(block_id)
        fc    == ForkChoice(block, DecisionHead(old_head, new_head))
    IN  <<GetBlockCall(block_id),
          send_block_received(block),
          Call("get_chain_head", <<>>, "", "", new_head.block_id, "ok", CurBuild)>>
        \o [i \in 1..Len(fc.lookups) |-> GetBlockCall(fc.lookups[i])]
        \o (IF fc.found
            THEN <<Call(fc.verdict, block_id, "", "", <<>>, "ok", CurBuild)>>
            ELSE <<>>)

\* First call of cs the validator itself answers with an error (0: none).
FirstError(cs) ==
    IF \E i \in 1..Len(cs) : cs[i].res = "err"
    THEN CHOOSE i \in 1..Len(cs) :
            cs[i].res = "err" /\ \A j \in 1..(i - 1) : cs[j].res # "err"
    ELSE 0

\* Lines 272-311.
HandleBlockValid ==
    /\ Take("BlockValid")
    /\ \E new_head \in StoreBlocks :
         LET cs == BlockValidCalls(Head(queue).id, chain_head, new_head)
             e  == FirstError(cs)
         IN  \E f \in (IF e = 0 THEN 0..Len(cs) ELSE 1..e) :
               /\ calls' = Performed(cs, f)
               /\ IF f = 0
                  THEN /\ ToPublish
                       /\ chain_head' = new_head
                       /\ UNCHANGED <<wait_time, published_at_height, elapsed,
                                      log_guard, consensus, wait_head, finalized>>
                  ELSE Panic
    /\ UNCHANGED service

\* Lines 138-147: the cancel_block call; the validator answers InvalidState
\* when no build is in progress.
CancelCall(pending) ==
    Call("cancel_block", <<>>, "", "", <<>>,
         IF pending THEN "ok" ELSE "invalid",
         IF pending THEN "stale" ELSE NoBuild)

\* Mutant of CancelFatal: InvalidState is not tolerated.
CancelFatalStrict(res) == res # "ok"

\* Lines 140-146: the results of cancel_block that panic.
CancelFatal(res) == res \notin {"ok", "invalid"}

\* Mutant of CommitWaitId: the wait is computed for the head the engine holds.
CommitWaitIdHeld(new_chain_head, head) == head

\* Line 323: the block id the new wait time is computed for.
CommitWaitId(new_chain_head, head) == new_chain_head

\* Mutant of CommitPublished: line 324 missing.
CommitPublishedKept(published) == published

\* Line 324.
CommitPublished(published) == FALSE

\* Mutant of CommitElapsed: line 325 missing.
CommitElapsedKept(e) == e

\* Line 325: start = Instant::now().
CommitElapsed(e) == 0

\* Lines 315-328.  The build in progress when the update is taken is stale
\* from then on; cancel_block discards it, initialize_block starts a fresh one.
HandleBlockCommit ==
    /\ Take("BlockCommit")
    /\ \E answer \in SettingsAnswers, f \in {0, 1, 3} :
         LET new_chain_head == Head(queue).id
             wid == CommitWaitId(new_chain_head, chain_head.block_id)
             cc  == IF f = 1 THEN Failed(CancelCall(svc_pending))
                    ELSE CancelCall(svc_pending)
             cw  == calculate_wait_time(wid, answer)
             sc  == SettingsCall(wid, answer)
             ic  == InitializeCall(NoBuild)
         IN  IF CancelFatal(cc.res)
             THEN /\ calls' = <<cc>>
                  /\ Panic
                  /\ svc_stale' = svc_pending
                  /\ UNCHANGED svc_pending
             ELSE IF cw.panic
             THEN /\ calls' = <<cc, sc>>
                  /\ Panic
                  /\ svc_pending' = FALSE
                  /\ svc_stale' = FALSE
             ELSE IF f = 3
             THEN /\ calls' = <<cc, sc, Failed(ic)>>
                  /\ Panic
                  /\ svc_pending' = FALSE
                  /\ svc_stale' = FALSE
             ELSE /\ calls' = <<cc, sc, ic>>
                  /\ wait_time' \in cw.waits
                  /\ wait_head' = wid
                  /\ published_at_height' = CommitPublished(published_at_height)
                  /\ elapsed' = CommitElapsed(elapsed)
                  /\ finalized' = 0
                  /\ svc_pending' = TRUE
                  /\ svc_stale' = FALSE
                  /\ ToPublish
                  /\ UNCHANGED <<chain_head, log_guard, consensus>>

\* Mutant of from_str: an unknown kind is taken for an ack.
from_str_lenient(s) ==
    IF s = "published" THEN [ok |-> TRUE, kind |-> "Published"]
    ELSE IF s = "received" THEN [ok |-> TRUE, kind |-> "Received"]
    ELSE [ok |-> TRUE, kind |-> "Ack"]

\* Lines 449-459.
from_str(s) ==
    IF s = "ack" THEN [ok |-> TRUE, kind |-> "Ack"]
    ELSE IF s = "published" THEN [ok |-> TRUE, kind |-> "Published"]
    ELSE IF s = "received" THEN [ok |-> TRUE, kind |-> "Received"]
    ELSE [ok |-> FALSE, kind |-> "Invalid message type"]

\* Lines 164-169.
send_block_ack(sender_id, block_id) ==
    Call("send_to", block_id, sender_id, "ack", <<>>, "ok", CurBuild)

\* Lines 330-359.
HandlePeerMessage ==
    /\ Take("PeerMessage")
    /\ LET u == Head(queue)
           m == from_str(u.msg)
       IN  IF ~m.ok
           THEN calls' = <<>> /\ Panic
           ELSE IF m.kind = "Received"
           THEN \E f \in 0..1 :
                  /\ calls' = Performed(<<send_block_ack(u.peer, u.id)>>, f)
                  /\ IF f = 0 THEN ToPublish /\ UNCHANGED locals
                     ELSE Panic
           ELSE calls' = <<>> /\ ToPublish /\ UNCHANGED locals
    /\ UNCHANGED service

\* Mutant of HandleOther: every update restarts the clock.
HandleOtherRestarts ==
    /\ \E t \in {"PeerConnected", "PeerDisconnected", "BlockInvalid"} : Take(t)
    /\ calls' = <<>>
    /\ ToPublish
    /\ elapsed' = 0
    /\ UNCHANGED <<service, chain_head, wait_time, published_at_height,
                   log_guard, consensus, wait_head, finalized>>

\* Lines 361-363.
HandleOther ==
    /\ \E t \in {"PeerConnected", "PeerDisconnected", "BlockInvalid"} : Take(t)
    /\ calls' = <<>>
    /\ ToPublish
    /\ UNCHANGED <<service, locals>>

\* Line 372: nothing arrived within the timeout.
RecvTimeout ==
    /\ pc = "recv"
    /\ queue = <<>>
    /\ cur' = Timeout
    /\ calls' = <<>>
    /\ pc' = "publish"
    /\ UNCHANGED <<queue, service, locals>>

\* Lines 367-370 and 384: the channel is empty and its sender is gone (the
\* validator can drop the sender at any time; the engine sees it here).
DisconnectedTarget == "done"

RecvDisconnected ==
    /\ pc = "recv"
    /\ queue = <<>>
    /\ cur' = Disconnected
    /\ calls' = <<>>
    /\ pc' = DisconnectedTarget
    /\ UNCHANGED <<queue, service, locals>>

\* ------------------------------------------------------------ publishing
\* Line 375.
PublishDue == ~published_at_height /\ elapsed > wait_time

\* Lines 375-376 and, when nothing is due, line 382: back to recv_timeout.
PublishCheck ==
    /\ pc = "publish"
    /\ pc' = IF PublishDue THEN "summarize" ELSE "recv"
    /\ cur' = NoEvent
    /\ calls' = <<>>
    /\ UNCHANGED <<queue, service, locals>>

NotReadyCount == Cardinality({i \in 1..Len(calls) : calls[i].res = "notready"})

\* What the validator can answer to summarize_block / finalize_block: an
\* error when no build is in progress, else not-ready, a result or an error.
BuildAnswers ==
    IF ~svc_pending THEN {"err"}
    ELSE {"ok", "err"} \cup (IF NotReadyCount < MaxRetry THEN {"notready"} ELSE {})

\* Lines 77-90: one summarize_block call of finalize_block.
Summarize ==
    /\ pc = "summarize"
    /\ \E res \in BuildAnswers, summary \in Summaries :
         /\ calls' = Append(calls,
                Call("summarize_block", <<>>, "", "",
                     IF res = "ok" THEN summary ELSE <<>>, res, CurBuild))
         /\ CASE res = "notready" ->
                   /\ pc' = "summarize"
                   /\ log_guard' = [log_guard EXCEPT !.not_ready_to_summarize = TRUE]
                   /\ UNCHANGED <<chain_head, wait_time, published_at_height,
                                  elapsed, consensus, wait_head, finalized,
                                  queue, cur>>
              [] res = "ok" ->
                   /\ pc' = "finalize"
                   /\ log_guard' = [log_guard EXCEPT !.not_ready_to_summarize = FALSE]
                   /\ consensus' = create_consensus(summary)
                   /\ UNCHANGED <<chain_head, wait_time, published_at_height,
                                  elapsed, wait_head, finalized, queue, cur>>
              [] OTHER -> Panic /\ UNCHANGED cur
    /\ UNCHANGED service

\* Lines 149-154.
broadcast_published_block(block_id, res) ==
    Call("broadcast", block_id, "", "published", <<>>, res, NoBuild)

\* Mutant of PublishedAfterFinalize: line 378 missing.
PublishedNotSet == FALSE

\* Line 378.
PublishedAfterFinalize == TRUE

\* Mutant of FinalizeCall: a retry submits a tag made anew, without the
\* summary.
FinalizeCallRetagged(tag, res, block_id) ==
    Call("finalize_block",
         IF log_guard.not_ready_to_finalize THEN create_consensus(<<>>) ELSE tag,
         "", "", IF res = "ok" THEN block_id ELSE <<>>, res, CurBuild)

\* Lines 91 and 98: service.finalize_block(consensus.clone()).
FinalizeCall(tag, res, block_id) ==
    Call("finalize_block", tag, "", "",
         IF res = "ok" THEN block_id ELSE <<>>, res, CurBuild)

\* Lines 91-107 and 378-380: one finalize_block call of finalize_block and,
\* when it succeeds, the rest of the publish step.
Finalize ==
    /\ pc = "finalize"
    /\ \E res \in BuildAnswers, block_id \in NewIds, bres \in {"ok", "err"} :
         LET fc == FinalizeCall(consensus, res, block_id)
         IN  CASE res = "notready" ->
                    /\ calls' = Append(calls, fc)
                    /\ pc' = "finalize"
                    /\ log_guard' = [log_guard EXCEPT !.not_ready_to_finalize = TRUE]
                    /\ UNCHANGED <<chain_head, wait_time, published_at_height,
                                   elapsed, consensus, wait_head, finalized,
                                   queue, cur, service>>
               [] res = "ok" ->
                    /\ calls' = calls \o <<fc, broadcast_published_block(block_id, bres)>>
                    /\ svc_pending' = FALSE
                    /\ UNCHANGED <<svc_stale, cur>>
                    /\ IF bres = "ok"
                       THEN /\ pc' = "loop"
                            /\ published_at_height' = PublishedAfterFinalize
                            /\ finalized' = IF finalized < 2 THEN finalized + 1 ELSE 2
                            /\ log_guard' = [log_guard EXCEPT !.not_ready_to_finalize = FALSE]
                            /\ consensus' = <<>>
                            /\ UNCHANGED <<chain_head, wait_time, elapsed,
                                           wait_head, queue>>
                       ELSE Panic
               [] OTHER ->
                    /\ calls' = Append(calls, fc)
                    /\ Panic
                    /\ UNCHANGED <<cur, service>>

\* Line 382 (and line 244 after the startup): on to recv_timeout.
LoopBack ==
    /\ pc = "loop"
    /\ pc' = "recv"
    /\ cur' = NoEvent
    /\ calls' = <<>>
    /\ UNCHANGED <<queue, service, locals>>

Next ==
    \/ Deliver
    \/ Tick
    \/ Startup
    \/ HandleShutdown
    \/ HandleBlockNew
    \/ Continue
    \/ HandleBlockValid
    \/ HandleBlockCommit
    \/ HandlePeerMessage
    \/ HandleOther
    \/ RecvTimeout
    \/ RecvDisconnected
    \/ PublishCheck
    \/ Summarize
    \/ Finalize
    \/ LoopBack

Spec == Init /\ [][Next]_vars

\* ------------------------------------------- the functions on their own
\* A second specification, of the two functions on their own:
\* calculate_wait_time against any settings the validator can hold, and
\* check_consensus against any summary and payload.
\* Setting values as character sequences: numbers, a number with a sign,
\* and strings that are no number.
SettingStrings ==
    {<<"0">>, <<"1">>, <<"2">>, <<"3">>, <<"1", "0">>, <<"0", "2">>,
     <<"+", "2">>, <<"-", "1">>, <<"x">>, <<>>, <<"1", ".", "5">>,
     <<" ", "1">>, <<"+">>}

SettingsResults ==
    {[ok |-> FALSE, map |-> <<>>]}
    \cup {[ok |-> TRUE, map |-> (MIN_KEY :> a @@ MAX_KEY :> b)] :
              a \in SettingStrings, b \in SettingStrings}
    \cup {[ok |-> TRUE, map |-> (MIN_KEY :> a)] : a \in SettingStrings}
    \cup {[ok |-> TRUE, map |-> (MAX_KEY :> b)] : b \in SettingStrings}

FnInit ==
    /\ pc = "fn"
    /\ chain_head = Genesis
    /\ wait_time = 0
    /\ published_at_height = FALSE
    /\ elapsed = 0
    /\ log_guard = LogGuardDefault
    /\ consensus = <<>>
    /\ queue = <<>>
    /\ svc_pending = FALSE
    /\ svc_stale = FALSE
    /\ cur = NoEvent
    /\ calls = <<>>
    /\ wait_head = <<>>
    /\ finalized = 0

\* Lines 176-212: one call of calculate_wait_time(chain_head.block_id).
CalculateWaitTime ==
    /\ pc = "fn"
    /\ \E settings_result \in SettingsResults :
         LET id == chain_head.block_id
             cw == WaitTimeOf(settings_result)
         IN  /\ calls' = <<Call("get_settings", id, "", "",
                                 settings_result.map,
                                 IF settings_result.ok THEN "ok" ELSE "err",
                                 NoBuild)>>
             /\ IF cw.panic
                THEN Panic
                ELSE /\ wait_time' \in cw.waits
                     /\ wait_head' = id
                     /\ pc' = "fn_wait"
                     /\ UNCHANGED <<chain_head, published_at_height, elapsed,
                                    log_guard, consensus, finalized, queue>>
    /\ UNCHANGED <<cur, service>>

\* Summaries and payloads handed to check_consensus: every summary up to
\* MaxSummary bytes, with its own tag, the bare "Devmode", no tag at all, and
\* its tag with a byte too many.
SummaryBytes == {0, 68}

TagSummaries == UNION {[1..k -> SummaryBytes] : k \in 0..MaxSummary}

TagBlocks ==
    UNION {{[MkBlock("a", 1) EXCEPT !.summary = s, !.payload = p] :
               p \in {create_consensus(t) : t \in {s, <<>>, s \o <<0>>}} \cup {s}} :
           s \in TagSummaries}

\* Values a changed byte can take.
ChangedBytes == {0, 1, 68, 100}

\* Lines 263-269 and 433-435: check_consensus applied to a block.
CheckConsensus ==
    /\ pc = "fn"
    /\ \E block \in TagBlocks :
         /\ cur' = Ev("BlockNew", block, <<>>, "", "")
         /\ calls' = <<BlockNewCall(block)>>
    /\ pc' = "fn_tag"
    /\ UNCHANGED <<queue, service, locals>>

\* Lines 433-435: check_consensus applied to the block with one byte of its
\* summary or of its payload changed.
ChangeByte ==
    /\ pc = "fn_tag"
    /\ \E field \in {"summary", "payload"}, v \in ChangedBytes :
         \E i \in 1..Len(cur.block[field]) :
            LET block == [cur.block EXCEPT ![field][i] = v]
            IN  /\ cur.block[field][i] # v
                /\ cur' = [cur EXCEPT !.block = block]
                /\ calls' = <<BlockNewCall(block)>>
    /\ pc' = "fn_changed"
    /\ UNCHANGED <<queue, service, locals>>

FnNext ==
    \/ CalculateWaitTime
    \/ CheckConsensus
    \/ ChangeByte

FnSpec == FnInit /\ [][FnNext]_vars

TypeOK ==
    /\ pc \in {"start", "recv", "continue", "publish", "summarize", "finalize",
               "loop", "done", "panic"}
    /\ chain_head \in StoreBlocks
    /\ wait_time \in 0..MaxTime
    /\ published_at_height \in BOOLEAN
    /\ elapsed \in 0..MaxTime
    /\ Len(queue) <= MaxQueue
    /\ finalized \in 0..2

\* =============================================================== properties
\* Vocabulary of the properties, stated independently of the operators above.

\* a is greater than b in the byte-lexicographic order: at the first index
\* where they differ a holds the greater byte, or b is a proper prefix of a.
LexGT(a, b) ==
    \E k \in 1..Len(a) :
        /\ \A j \in 1..(k - 1) : j <= Len(b) /\ a[j] = b[j]
        /\ (k > Len(b) \/ (k <= Len(b) /\ a[k] > b[k]))

\* The blocks reached from b by following predecessor links, b included.
RECURSIVE Ancestry(_)
Ancestry(b) ==
    {b} \cup (IF b.previous_id \in KnownIds
              THEN Ancestry(BlockOf(b.previous_id)) ELSE {})

AncestorAt(head, num) == CHOOSE b \in Ancestry(head) : b.block_num = num

IsNullId(id) == Len(id) = 8 /\ \A i \in 1..8 : id[i] = 0

\* The constant "Devmode" followed by the summary.
TagOf(summary) ==
    [i \in 1..(7 + Len(summary)) |->
        IF i <= 7 THEN <<68, 101, 118, 109, 111, 100, 101>>[i] ELSE summary[i - 7]]

LastCall == calls[Len(calls)]

Decisions == {i \in 1..Len(calls) : calls[i].op \in {"commit_block", "ignore_block"}}

\* A BlockValid handler has run to its end.
ValidHandled == pc = "publish" /\ cur.type = "BlockValid"

\* C1: after a BlockValid update is handled, the new block was committed if
\* it is higher than the chain head; at equal height it was committed exactly
\* if its id is lexicographically greater than the head's id, and ignored
\* otherwise.
C1_ForkChoiceRule1 ==
    ValidHandled =>
        LET block == BlockOf(cur.id)
        IN  /\ block.block_num > chain_head.block_num =>
                (LastCall.op = "commit_block" /\ LastCall.arg = cur.id)
            /\ block.block_num = chain_head.block_num =>
                /\ LastCall.op = "commit_block"
                      <=> LexGT(block.block_id, chain_head.block_id)
                /\ ~LexGT(block.block_id, chain_head.block_id) =>
                      (LastCall.op = "ignore_block" /\ LastCall.arg = cur.id)
                /\ LastCall.arg = cur.id

\* A block of the head's height with a greater id was committed.
C1_Witness ==
    /\ ValidHandled
    /\ BlockOf(cur.id).block_num = chain_head.block_num
    /\ cur.id # chain_head.block_id
    /\ LastCall.op = "commit_block"

\* C2: after a BlockValid update for a block lower than the chain head is
\* handled, the block was committed if its id is lexicographically greater
\* than the id of the head's ancestor at the block's height, and ignored
\* otherwise, also when the block is that ancestor.
C2_ForkChoiceRule2 ==
    (ValidHandled /\ BlockOf(cur.id).block_num < chain_head.block_num) =>
        LET block    == BlockOf(cur.id)
            ancestor == AncestorAt(chain_head, block.block_num)
        IN  /\ LastCall.arg = cur.id
            /\ LastCall.op = IF LexGT(block.block_id, ancestor.block_id)
                             THEN "commit_block" ELSE "ignore_block"
            /\ ancestor = block => LastCall.op = "ignore_block"

\* The engine switched to a fork: a lower block that is not on the head's
\* chain was committed.
C2_Witness ==
    /\ ValidHandled
    /\ BlockOf(cur.id).block_num < chain_head.block_num
    /\ BlockOf(cur.id) \notin Ancestry(chain_head)
    /\ LastCall.op = "commit_block"

\* The fork choice of section 4.2, as a function of the block and a head.
Verdict(block, head) ==
    IF \/ block.block_num > head.block_num
       \/ (block.block_num = head.block_num
           /\ LexGT(block.block_id, head.block_id))
    THEN "commit_block"
    ELSE IF block.block_num < head.block_num
            /\ LexGT(block.block_id, AncestorAt(head, block.block_num).block_id)
    THEN "commit_block"
    ELSE "ignore_block"

\* C3: the calls of a handled BlockValid(id) are get_block(id), one send_to
\* of "received" with id to the block's signer, one get_chain_head, lookups
\* of blocks, and last exactly one commit_block(id) or ignore_block(id),
\* the one the fork choice gives against the head get_chain_head returned.
C3_BlockValidSequence ==
    ValidHandled =>
        LET block == BlockOf(cur.id)
            n     == Len(calls)
        IN  /\ n >= 4
            /\ calls[1].op = "get_blocks" /\ calls[1].arg = cur.id
            /\ calls[2].op = "send_to" /\ calls[2].peer = block.signer_id
            /\ calls[2].msg = "received" /\ calls[2].arg = cur.id
            /\ calls[3].op = "get_chain_head"
            /\ \A i \in 4..(n - 1) : calls[i].op = "get_blocks"
            /\ Decisions = {n}
            /\ calls[n].arg = cur.id
            /\ calls[n].op = Verdict(block, BlockOf(calls[3].ret))
            /\ \A i \in 1..n : calls[i].res = "ok"

\* A block was ignored after a walk down the chain of the refreshed head.
C3_Witness ==
    /\ ValidHandled
    /\ Len(calls) >= 5
    /\ calls[3].ret = chain_head.block_id
    /\ LastCall.op = "ignore_block"

\* A BlockNew handler has run to its end.
NewHandled == pc \in {"continue", "publish"} /\ cur.type = "BlockNew"

\* C4: a handled BlockNew made no call if the block's predecessor is the
\* null identifier, and else exactly one call for the block's id:
\* check_blocks if the payload is the tag of the summary, else fail_block.
C4_BlockNewCheck ==
    NewHandled =>
        LET block == cur.block
        IN  IF IsNullId(block.previous_id)
            THEN calls = <<>>
            ELSE /\ Len(calls) = 1
                 /\ calls[1].arg = block.block_id
                 /\ calls[1].op = IF block.payload = TagOf(block.summary)
                                  THEN "check_blocks" ELSE "fail_block"

\* A genesis block with a good tag was ignored without a call.
C4_Witness ==
    /\ NewHandled
    /\ IsNullId(cur.block.previous_id)
    /\ cur.block.payload = TagOf(cur.block.summary)
    /\ calls = <<>>

\* The engine takes an update of this type from the channel.
Takes(type) ==
    pc = "recv" /\ queue # <<>> /\ Head(queue).type = type /\ pc' # "recv"

\* calls ends with a successful finalize_block and a "published" broadcast
\* of the id it returned.
EndsPublished(cs) ==
    /\ Len(cs) >= 2
    /\ cs[Len(cs) - 1].op = "finalize_block" /\ cs[Len(cs) - 1].res = "ok"
    /\ cs[Len(cs)].op = "broadcast" /\ cs[Len(cs)].msg = "published"
    /\ cs[Len(cs)].arg = cs[Len(cs) - 1].ret

\* C5: the engine goes back to recv_timeout only when no publication is due:
\* after every handled update and every timeout line 375 is evaluated, and
\* if it holds the block is finalized, the flag set and "published"
\* broadcast with the new id before the next update is taken.
C5_PublishCheckEveryIteration ==
    [][/\ (pc # "recv" /\ pc' = "recv") => ~PublishDue
       /\ (pc = "publish" /\ pc' # "publish" /\ PublishDue) => pc' = "summarize"
       /\ (pc = "finalize" /\ pc' = "loop") =>
             (published_at_height' /\ EndsPublished(calls'))]_vars

\* C6 (state part): while the engine runs, the flag is set exactly if a
\* finalize_block has succeeded since the last BlockCommit (or the start),
\* there was at most one, and each successful finalize_block is followed at
\* once by the only "published" broadcast, carrying the id it returned.
C6_Inv ==
    /\ finalized <= 1
    /\ Running => (published_at_height <=> finalized = 1)
    /\ \A i \in 1..Len(calls) :
          (calls[i].op = "finalize_block" /\ calls[i].res = "ok") =>
             /\ i + 1 = Len(calls)
             /\ calls[i + 1].op = "broadcast"
             /\ calls[i + 1].msg = "published"
             /\ calls[i + 1].arg = calls[i].ret
    /\ \A i \in 1..Len(calls) :
          calls[i].op = "broadcast" =>
             (i > 1 /\ calls[i - 1].op = "finalize_block" /\ calls[i - 1].res = "ok")

\* C6 (step part): the flag turns true only in the step of a successful
\* finalize_block, and false only when a BlockCommit is handled.
C6_Step ==
    /\ (~published_at_height /\ published_at_height') =>
          (pc = "finalize" /\ EndsPublished(calls'))
    /\ (published_at_height /\ ~published_at_height' /\ pc' # "panic") =>
          Takes("BlockCommit")

\* C6: the published flag and the publish cycle.
C6_PublishedFlag == []C6_Inv /\ [][C6_Step]_vars

\* A block was finalized after a not-ready answer and its id broadcast.
C6_Witness ==
    /\ pc = "loop"
    /\ published_at_height
    /\ finalized = 1
    /\ EndsPublished(calls)
    /\ \E i \in 1..Len(calls) : calls[i].res = "notready"

\* C7: initialize_block is never called while the validator has a build in
\* progress, summarize_block and finalize_block never when it has none, and
\* whenever the engine waits for an update a build is in progress exactly if
\* the published flag is false.
C7_PendingLifecycle ==
    /\ \A i \in 1..Len(calls) :
          /\ calls[i].op = "initialize_block" => calls[i].build = NoBuild
          /\ calls[i].op \in {"summarize_block", "finalize_block"} =>
                calls[i].build # NoBuild
    /\ pc = "recv" => (svc_pending <=> ~published_at_height)

\* A BlockCommit after the block was finalized: nothing to cancel, and a new
\* build is in progress.
C7_Witness ==
    /\ pc = "publish"
    /\ cur.type = "BlockCommit"
    /\ Len(calls) = 3
    /\ calls[1].op = "cancel_block" /\ calls[1].res = "invalid"
    /\ calls[3].op = "initialize_block" /\ calls[3].res = "ok"
    /\ svc_pending
    /\ ~published_at_height

\* C8 (step part): handling BlockCommit(id) calls cancel_block, then
\* get_settings for id, then initialize_block; when it is done the wait is
\* one the settings at id give, the flag is false, the clock is restarted
\* and a fresh build is in progress.
C8_Step ==
    Takes("BlockCommit") =>
        LET id == Head(queue).id
        IN  /\ pc' \in {"publish", "panic"}
            /\ Len(calls') >= 1
            /\ calls'[1].op = "cancel_block"
            /\ calls'[1].res \in {"ok", "invalid", "err"}
            /\ calls'[1].res = "ok" => svc_pending
            /\ calls'[1].res = "invalid" => ~svc_pending
            /\ pc' = "publish" =>
                  /\ Len(calls') = 3
                  /\ calls'[2].op = "get_settings" /\ calls'[2].arg = id
                  /\ wait_time' \in calculate_wait_time(id, calls'[2].msg).waits
                  /\ ~published_at_height'
                  /\ elapsed' = 0
                  /\ calls'[3].op = "initialize_block" /\ calls'[3].res = "ok"
                  /\ svc_pending' /\ ~svc_stale'

\* C8 (state part): no finalize_block acts on a build that was in progress
\* when the last BlockCommit was taken.
C8_Inv ==
    /\ \A i \in 1..Len(calls) :
          calls[i].op \in {"summarize_block", "finalize_block"} =>
             calls[i].build # "stale"
    /\ Running => ~svc_stale

\* C8: BlockCommit abandons the block in progress.
C8_BlockCommitRestarts == []C8_Inv /\ [][C8_Step]_vars

\* A BlockCommit arrived mid-build: the build was cancelled and the wait
\* computed for the announced head.
C8_Witness ==
    /\ pc = "publish"
    /\ cur.type = "BlockCommit"
    /\ Len(calls) = 3
    /\ calls[1].op = "cancel_block" /\ calls[1].res = "ok"
    /\ calls[2].arg = cur.id
    /\ wait_time = 1
    /\ elapsed = 0

\* C9 as claimed: the wait deadline was computed for the chain head the
\* engine holds.
C9_DeadlineForHeldHead ==
    Running => wait_head = chain_head.block_id

\* C9 as amended: the deadline is computed for the startup head and then
\* replaced, with the flag reset and the clock restarted, exactly when a
\* BlockCommit is handled, for the id it announces; BlockCommit leaves the
\* chain-head view alone and BlockValid, which refreshes it, leaves the
\* deadline, the flag and the clock alone.
C9_Step ==
    /\ (pc = "start" /\ pc' = "loop") =>
          /\ wait_head' = chain_head.block_id
          /\ wait_time' \in UNION {calculate_wait_time(wait_head', a).waits :
                                      a \in SettingsAnswers}
          /\ ~published_at_height' /\ elapsed' = 0
    /\ (Takes("BlockCommit") /\ pc' = "publish") =>
          /\ wait_head' = Head(queue).id
          /\ wait_time' \in UNION {calculate_wait_time(wait_head', a).waits :
                                      a \in SettingsAnswers}
          /\ ~published_at_height' /\ elapsed' = 0
          /\ chain_head' = chain_head
    /\ (Takes("BlockValid") /\ pc' = "publish") =>
          /\ chain_head'.block_id = calls'[3].ret
          /\ published_at_height' = published_at_height
          /\ elapsed' = elapsed
    /\ (pc # "start" /\ pc' # "panic" /\ ~Takes("BlockCommit")) =>
          /\ wait_head' = wait_head
          /\ wait_time' = wait_time
          /\ published_at_height => published_at_height'
          /\ elapsed' >= elapsed

\* C9 (amended): every step replaces the deadline only at startup and on
\* BlockCommit, for the announced head.
C9_DeadlineForAnnouncedHead == [][C9_Step]_vars

\* After a BlockCommit the deadline belongs to the announced head, which is
\* not the head the engine holds.
C9_Witness ==
    /\ pc = "publish"
    /\ cur.type = "BlockCommit"
    /\ wait_head = cur.id
    /\ wait_head # chain_head.block_id

\* C10 as claimed: start returns success only after a Shutdown update.
C10_SuccessOnlyOnShutdown ==
    pc = "done" => cur.type = "Shutdown"

\* C10 as amended: start returns success exactly when a Shutdown update is
\* received or the channel is found empty with its sender gone; either way
\* the iteration makes no service call and changes nothing else.
C10_Step ==
    /\ Takes("Shutdown") =>
          (pc' = "done" /\ calls' = <<>> /\ UNCHANGED <<service, locals>>)
    /\ (pc # "done" /\ pc' = "done") =>
          /\ pc = "recv"
          /\ calls' = <<>>
          /\ UNCHANGED <<service, locals>>
          /\ \/ (queue # <<>> /\ Head(queue).type = "Shutdown")
             \/ (queue = <<>> /\ cur'.type = "Disconnected")

C10_Inv ==
    pc = "done" => (cur.type \in {"Shutdown", "Disconnected"} /\ calls = <<>>)

\* C10 (amended): success exactly on Shutdown or a disconnected channel,
\* without any service call.
C10_SuccessOnShutdownOrDisconnect == []C10_Inv /\ [][C10_Step]_vars

\* Shutdown was handled while a publication was due: nothing was finalized.
C10_Witness ==
    /\ pc = "done"
    /\ cur.type = "Shutdown"
    /\ PublishDue
    /\ svc_pending
    /\ calls = <<>>

\* The calls whose error the adapter does not absorb.
FatalOps ==
    {"get_chain_head", "get_blocks", "initialize_block", "check_blocks",
     "fail_block", "ignore_block", "commit_block", "broadcast", "send_to",
     "cancel_block", "summarize_block", "finalize_block"}

\* C11 (state part): a service call of the adapter that ended in an error
\* (other than invalid-state of cancel_block and not-ready of summarize_block
\* and finalize_block, which are separate results) is the last call the
\* engine made and the engine has left start without returning.
C11_Inv ==
    \A i \in 1..Len(calls) :
        (calls[i].op \in FatalOps /\ calls[i].res = "err") =>
            (pc = "panic" /\ i = Len(calls))

\* C11 (step part): nothing happens after the engine has left start this
\* way: no update is handled, no call is made, start does not return.
C11_Step == pc # "panic"

\* C11: an error of the adapter layer ends the engine.
C11_FatalErrors == []C11_Inv /\ [][C11_Step]_vars

\* commit_block failed at the end of a BlockValid handler.
C11_Witness ==
    /\ pc = "panic"
    /\ cur.type = "BlockValid"
    /\ Len(calls) >= 4
    /\ LastCall.op = "commit_block"
    /\ LastCall.res = "err"

\* calculate_wait_time has returned for settings holding both keys.
WaitReturned ==
    /\ pc = "fn_wait"
    /\ calls[1].res = "ok"
    /\ DOMAIN calls[1].ret = {MIN_KEY, MAX_KEY}

\* C12: when both settings parse as non-negative integers min and max, the
\* wait is a whole number of seconds in [min, max) if min < max, and 0 if
\* min >= max.
C12_WaitRange ==
    (/\ WaitReturned
     /\ ParseU64(calls[1].ret[MIN_KEY]).ok
     /\ ParseU64(calls[1].ret[MAX_KEY]).ok) =>
        LET min == ParseU64(calls[1].ret[MIN_KEY]).val
            max == ParseU64(calls[1].ret[MAX_KEY]).val
        IN  /\ wait_time \in Nat
            /\ min < max => (min <= wait_time /\ wait_time < max)
            /\ min >= max => wait_time = 0

\* min = 2 and max = 10 gave the longest wait of the range.
C12_Witness ==
    /\ WaitReturned
    /\ calls[1].ret[MIN_KEY] = <<"2">>
    /\ calls[1].ret[MAX_KEY] = <<"1", "0">>
    /\ wait_time = 9

\* C13: calculate_wait_time never faults and returns exactly 0 when the
\* settings read fails, when one of the two keys is missing from the answer,
\* or when one of the two values does not parse as a non-negative integer.
C13_BadSettingsGiveZero ==
    pc \in {"fn_wait", "panic"} =>
        LET r == calls[1]
            bad == IF r.res = "err" THEN TRUE
                   ELSE IF DOMAIN r.ret # {MIN_KEY, MAX_KEY} THEN TRUE
                   ELSE ~ParseU64(r.ret[MIN_KEY]).ok \/ ~ParseU64(r.ret[MAX_KEY]).ok
        IN  bad => (pc = "fn_wait" /\ wait_time = 0)

\* A PeerMessage handler has run, to its end or into a panic.
PeerHandled == pc \in {"publish", "panic"} /\ cur.type = "PeerMessage"

\* C14: handling PeerMessage(message, sender): kind "received" makes exactly
\* one call, send_to(sender, "ack", message.content); kinds "published" and
\* "ack" make no call; any other kind ends the engine, without a call.
C14_PeerMessageDispatch ==
    PeerHandled =>
        /\ cur.msg = "received" =>
              /\ Len(calls) = 1
              /\ calls[1].op = "send_to"
              /\ calls[1].peer = cur.peer
              /\ calls[1].msg = "ack"
              /\ calls[1].arg = cur.id
              /\ pc = "panic" <=> calls[1].res = "err"
        /\ cur.msg \in {"published", "ack"} => (calls = <<>> /\ pc = "publish")
        /\ cur.msg \notin {"received", "published", "ack"} =>
              (calls = <<>> /\ pc = "panic")

\* A "received" of peer p2 was answered with an ack to p2.
C14_Witness ==
    /\ pc = "publish"
    /\ cur.type = "PeerMessage"
    /\ cur.msg = "received"
    /\ cur.peer = "p2"
    /\ calls = <<[op |-> "send_to", arg |-> cur.id, peer |-> "p2", msg |-> "ack",
                  ret |-> <<>>, res |-> "ok", build |-> "fresh"]>>

\* C15: when BlockCommit is taken with no build in progress (the engine has
\* finalized its block), cancel_block answers invalid-state and the handler
\* goes on as after a successful cancel: get_settings for the announced id,
\* then the new wait, the flag reset, the clock restarted and
\* initialize_block.  A cancel_block error of any other kind ends the engine
\* at once.
C15_Step ==
    Takes("BlockCommit") =>
        /\ calls'[1].op = "cancel_block"
        /\ ~svc_pending => calls'[1].res \in {"invalid", "err"}
        /\ calls'[1].res = "err" => (pc' = "panic" /\ Len(calls') = 1)
        /\ calls'[1].res \in {"ok", "invalid"} =>
              /\ Len(calls') >= 2
              /\ calls'[2] = SettingsCall(Head(queue).id, calls'[2].msg)
              /\ pc' = "panic" => calls'[Len(calls')].op # "cancel_block"
              /\ pc' = "publish" =>
                    /\ Len(calls') = 3
                    /\ calls'[3] = InitializeCall(NoBuild)
                    /\ wait_time' \in
                          calculate_wait_time(Head(queue).id, calls'[2].msg).waits
                    /\ ~published_at_height'
                    /\ elapsed' = 0
                    /\ svc_pending'

C15_CancelInvalidStateBenign == [][C15_Step]_vars

\* A BlockCommit taken after the block was published: the cancel was
\* answered with invalid-state and the new cycle began.
C15_Witness ==
    /\ pc = "publish"
    /\ cur.type = "BlockCommit"
    /\ Len(calls) = 3
    /\ calls[1].res = "invalid"
    /\ calls[3].res = "ok"
    /\ ~published_at_height
    /\ finalized = 0
    /\ elapsed = 0
    /\ wait_time = 1

\* Blocks a and b differ in exactly one byte of the summary or of the payload.
OneByteApart(a, b) ==
    /\ Len(a.summary) = Len(b.summary)
    /\ Len(a.payload) = Len(b.payload)
    /\ Cardinality({i \in 1..Len(a.summary) : a.summary[i] # b.summary[i]})
         + Cardinality({i \in 1..Len(a.payload) : a.payload[i] # b.payload[i]}) = 1

\* check_consensus has accepted the block of the state.
Verified(cs) == cs[1].op = "check_blocks"

\* C16 (state part): check_consensus accepts a block exactly if its payload
\* is "Devmode" followed by its summary.
C16_Inv ==
    pc \in {"fn_tag", "fn_changed"} =>
        /\ calls[1].op \in {"check_blocks", "fail_block"}
        /\ Verified(calls) <=> cur.block.payload = TagOf(cur.block.summary)

\* C16 (step part): a block that was accepted is rejected after one byte of
\* its summary or of its payload is changed.
C16_Step ==
    (pc = "fn_tag" /\ pc' = "fn_changed" /\ Verified(calls)
        /\ OneByteApart(cur.block, cur'.block)) => ~Verified(calls')

\* C16: the consensus tag round trip.
C16_TagRoundTrip == []C16_Inv /\ [][C16_Step]_vars

\* The second summary byte of an accepted block was changed from 68 to 0.
C16_Witness ==
    /\ pc = "fn_changed"
    /\ cur.block.summary = <<0, 0>>
    /\ cur.block.payload = TagOf(<<0, 68>>)
    /\ ~Verified(calls)

\* The calls of the state are those of a publish step (lines 376-380).
PublishStep == cur.type = "None" /\ calls # <<>>

\* C17: in a publish step the calls are summarize_block, repeated while it
\* answers not-ready and never again after it succeeded, then finalize_block,
\* repeated while it answers not-ready, every attempt with the tag
\* "Devmode" ++ the summary returned, then one "published" broadcast of the
\* id the successful finalize_block returned; an error ends the step.
C17_RetryDiscipline ==
    PublishStep =>
        /\ calls[1].op = "summarize_block"
        /\ \A i \in 1..Len(calls) :
              /\ calls[i].op \in {"summarize_block", "finalize_block", "broadcast"}
              /\ calls[i].op = "finalize_block" =>
                    \E k \in 1..(i - 1) :
                        /\ calls[k].op = "summarize_block"
                        /\ calls[k].res = "ok"
                        /\ calls[i].arg = TagOf(calls[k].ret)
              /\ (calls[i].op = "summarize_block" /\ calls[i].res = "ok") =>
                    \A k \in 1..Len(calls) :
                        (k # i /\ calls[k].op = "summarize_block") =>
                            (k < i /\ calls[k].res = "notready")
              /\ (calls[i].op = "broadcast") =>
                    /\ i = Len(calls)
                    /\ i > 1
                    /\ calls[i - 1].op = "finalize_block"
                    /\ calls[i - 1].res = "ok"
                    /\ calls[i].arg = calls[i - 1].ret
                    /\ calls[i].msg = "published"
                    /\ \A k \in 1..(i - 2) :
                          calls[k].op = "finalize_block" => calls[k].res = "notready"
        /\ \A i \in 1..(Len(calls) - 1) :
              /\ calls[i].res # "err"
              /\ calls[i].res = "notready" => calls[i + 1].op = calls[i].op
              /\ (calls[i].op = "summarize_block" /\ calls[i].res = "ok") =>
                    calls[i + 1].op = "finalize_block"
              /\ (calls[i].op = "finalize_block" /\ calls[i].res = "ok") =>
                    calls[i + 1].op = "broadcast"
        /\ LastCall.res = "notready" =>
              /\ LastCall.op = "summarize_block" => pc = "summarize"
              /\ LastCall.op = "finalize_block" => pc = "finalize"
        /\ (LastCall.op = "summarize_block" /\ LastCall.res = "ok") =>
              (pc = "finalize" /\ consensus = TagOf(LastCall.ret))

\* Both calls were not ready once; the id of the second finalize_block was
\* broadcast.
C17_Witness ==
    /\ pc = "loop"
    /\ PublishStep
    /\ Len(calls) = 5
    /\ calls[1].res = "notready" /\ calls[2].res = "ok"
    /\ calls[3].res = "notready" /\ calls[4].res = "ok"
    /\ calls[4].arg = TagOf(<<7, 7>>)
    /\ calls[5].arg = <<9, 1>>

\* C18 (step part): while finalize_block retries, no update leaves the
\* channel and no handler runs; start does not return; a not-ready answer
\* keeps the engine in the same retry loop and any other answer ends that
\* loop.  An update leaves the channel only in recv_timeout, the oldest first.
C18_Step ==
    /\ pc \in {"summarize", "finalize"} =>
          /\ \/ queue' = queue
             \/ \E u \in Updates : queue' = Append(queue, u)
             \/ pc' = "panic"
          /\ pc' \in {"summarize", "finalize", "loop", "panic"}
          /\ cur' = cur
          /\ calls' # calls =>
                /\ Len(calls') > Len(calls)
                /\ calls'[Len(calls) + 1].op =
                      (IF pc = "summarize" THEN "summarize_block" ELSE "finalize_block")
                /\ calls'[Len(calls) + 1].res = "notready" <=> pc' = pc
    /\ (queue' # queue /\ pc' # "panic" /\ Len(queue') <= Len(queue)) =>
          /\ pc = "recv"
          /\ cur' = Head(queue)
          /\ queue' = Tail(queue)

C19_WalkTerminates ==
    (ValidHandled /\ BlockOf(cur.id).block_num < chain_head.block_num) =>
        LET n == chain_head.block_num - BlockOf(cur.id).block_num
        IN  /\ Len(calls) = n + 4
            /\ \A k \in 1..n :
                  /\ calls[3 + k].op = "get_blocks"
                  /\ calls[3 + k].res = "ok"
                  /\ calls[3 + k].arg =
                        (IF k = 1 THEN chain_head.previous_id
                         ELSE BlockOf(calls[2 + k].arg).previous_id)
                  /\ BlockOf(calls[3 + k].arg).block_num = chain_head.block_num - k
                  /\ k < n =>
                        BlockOf(calls[3 + k].arg).block_num # BlockOf(cur.id).block_num
            /\ calls[n + 4].op \in {"commit_block", "ignore_block"}

\* A walk of two lookups, from a head of height 2 down to height 0.
C19_Witness ==
    /\ ValidHandled
    /\ chain_head.block_num = 2
    /\ BlockOf(cur.id).block_num = 0
    /\ Len(calls) = 6
    /\ BlockOf(calls[5].arg).block_num = 0

\* C20: handling PeerConnected, PeerDisconnected or BlockInvalid makes no
\* service call and leaves the chain head, the wait, the clock and the flag
\* as they were; handling BlockNew, BlockValid or PeerMessage leaves the
\* wait, the clock and the flag as they were; while the loop runs, the wait
\* and a restart of the clock come only from BlockCommit, a change of the
\* flag only from BlockCommit and the publish step.
C20_Step ==
    /\ (\E t \in {"PeerConnected", "PeerDisconnected", "BlockInvalid"} : Takes(t)) =>
          /\ calls' = <<>>
          /\ pc' = "publish"
          /\ chain_head' = chain_head
          /\ wait_time' = wait_time
          /\ elapsed' = elapsed
          /\ published_at_height' = published_at_height
          /\ UNCHANGED service
    /\ ((\E t \in {"BlockNew", "BlockValid", "PeerMessage"} : Takes(t))
            /\ pc' # "panic") =>
          /\ wait_time' = wait_time
          /\ elapsed' = elapsed
          /\ published_at_height' = published_at_height
    /\ (pc # "start" /\ pc' # "panic") =>
          /\ (wait_time' # wait_time \/ elapsed' < elapsed) => Takes("BlockCommit")
          /\ published_at_height' # published_at_height =>
                (Takes("BlockCommit") \/ pc = "finalize")

C20_NoOpEvents == [][C20_Step]_vars

\* A BlockInvalid was handled while the timer was running: nothing changed.
C20_Witness ==
    /\ pc = "publish"
    /\ cur.type = "BlockInvalid"
    /\ calls = <<>>
    /\ elapsed = 1
    /\ wait_time = 1
    /\ ~published_at_height
====
